---- MODULE Spec2Model ----
(***************************************************************************)
(* Model of libjpeg/utils.py (pylibjpeg-libjpeg): the three public         *)
(* operations decode, decode_pixel_data and get_parameters, each a single  *)
(* stateless call around one call of the native engine _libjpeg.           *)
(*                                                                         *)
(* Text is modelled as a sequence of strings: a literal of the source or a *)
(* table description is one element, every character that comes from a    *)
(* status token or from formatting an integer is a one-character element.  *)
(* Byte buffers are sequences of integers 0..255.                          *)
(***************************************************************************)
EXTENDS Integers, Sequences, FiniteSets, TLC

VARIABLES pc, call, engine, outcome

vars == <<pc, call, engine, outcome>>

----------------------------------------------------------------------------
(* Bounds of the model *)

MaxRows == 2
MaxColumns == 2
MaxComponents == 2
MaxOutLen == 8
MaxTokenLen == 6

----------------------------------------------------------------------------
(* Module constants of utils.py *)

\* class Version(enum.IntEnum)
Version == [v1 |-> 1, v2 |-> 2]

COLOURSPACE_mutA ==
    [l \in {"MONOCHROME1", "MONOCHROME2", "RGB", "YBR_FULL", "YBR_FULL_422"} |->
        IF l \in {"RGB", "YBR_FULL"} THEN 1 ELSE 0]

COLOURSPACE ==
    [l \in {"MONOCHROME1", "MONOCHROME2", "RGB", "YBR_FULL", "YBR_FULL_422"} |->
        IF l = "RGB" THEN 1 ELSE 0]

LIBJPEG_ERROR_CODES_mutA ==
    (0 - 1024) :> "A parameter for a function was out of range"
 @@ (0 - 1025) :> "Stream run out of data"
 @@ (0 - 2046) :> "Failed to construct the JPEG object"

LIBJPEG_ERROR_CODES ==
    (0 - 1024) :> "A parameter for a function was out of range"
 @@ (0 - 1025) :> "Stream run out of data"
 @@ (0 - 1026) :> "A code block run out of data"
 @@ (0 - 1027) :> "Tried to perform an unputc or or an unget on an empty stream"
 @@ (0 - 1028) :> "Some parameter run out of range"
 @@ (0 - 1029) :> "The requested operation does not apply"
 @@ (0 - 1030) :> "Tried to create an already existing object"
 @@ (0 - 1031) :> "Tried to access a non-existing object"
 @@ (0 - 1032) :> "A non-optional parameter was left out"
 @@ (0 - 1033) :> "Forgot to delay a 0xFF"
 @@ (0 - 1034) :> "Internal error: the requested operation is not available"
 @@ (0 - 1035) :> "Internal error: an item computed on a former pass does not coincide with the same item on a later pass"
 @@ (0 - 1036) :> "The stream passed in is no valid jpeg stream"
 @@ (0 - 1037) :> "A unique marker turned up more than once. The input stream is most likely corrupt"
 @@ (0 - 1038) :> "A misplaced marker segment was found"
 @@ (0 - 1040) :> "The specified parameters are valid, but are not supported by the selected profile. Either use a higher profile, or use simpler parameters (encoder only). "
 @@ (0 - 1041) :> "Internal error: the worker thread that was currently active had to terminate unexpectedly"
 @@ (0 - 1042) :> "The encoder tried to emit a symbol for which no Huffman code was defined. This happens if the standard Huffman table is used for an alphabet for which it was not defined. The reaction to this exception should be to create a custom huffman table instead"
 @@ (0 - 2046) :> "Failed to construct the JPEG object"

----------------------------------------------------------------------------
(* Python and numpy primitives used by utils.py *)

Digits == <<"0", "1", "2", "3", "4", "5", "6", "7", "8", "9">>

IsDigit(c) == \E d \in 1..10 : Digits[d] = c

DigitVal(c) == (CHOOSE d \in 1..10 : Digits[d] = c) - 1

\* the byte of a status token that is not valid UTF-8 on its own (0xFF)
BadByte == "<FF>"

\* bytes.decode("utf-8") on a token of ASCII bytes and 0xFF bytes
Utf8Decode(b) ==
    IF \E i \in 1..Len(b) : b[i] = BadByte
    THEN [ok |-> FALSE, str |-> <<>>]
    ELSE [ok |-> TRUE, str |-> b]

Delim == <<":", ":", ":", ":">>

\* positions where the delimiter starts in s
DelimAt(s, i) == i + 3 <= Len(s) /\ SubSeq(s, i, i + 3) = Delim

HasDelim(s) == \E i \in 1..Len(s) : DelimAt(s, i)

FirstDelim(s) == CHOOSE i \in 1..Len(s) :
    DelimAt(s, i) /\ \A j \in 1..(i - 1) : ~DelimAt(s, j)

\* a split that cuts at the first delimiter only (str.split("::::", 1))
StrSplit_mutA(s) ==
    IF ~HasDelim(s) THEN <<s>>
    ELSE LET i == FirstDelim(s)
         IN <<SubSeq(s, 1, i - 1), SubSeq(s, i + 4, Len(s))>>

RECURSIVE StrSplit(_)
\* str.split("::::"): every non-overlapping occurrence, leftmost first
StrSplit(s) ==
    IF ~HasDelim(s) THEN <<s>>
    ELSE LET i == FirstDelim(s)
         IN <<SubSeq(s, 1, i - 1)>> \o StrSplit(SubSeq(s, i + 4, Len(s)))

RECURSIVE Strip(_)
\* str.strip() as int() applies it, for the one whitespace character modelled
Strip(s) ==
    IF s = <<>> THEN s
    ELSE IF Head(s) = " " THEN Strip(Tail(s))
    ELSE IF s[Len(s)] = " " THEN Strip(SubSeq(s, 1, Len(s) - 1))
    ELSE s

\* the digit part int() accepts: digits, single underscores between digits
IsDigitPart(s) ==
    /\ s # <<>>
    /\ \A i \in 1..Len(s) : IsDigit(s[i]) \/ s[i] = "_"
    /\ IsDigit(s[1]) /\ IsDigit(s[Len(s)])
    /\ \A i \in 1..(Len(s) - 1) : ~(s[i] = "_" /\ s[i + 1] = "_")

RECURSIVE DigitsValue(_)
DigitsValue(s) ==
    IF s = <<>> THEN 0
    ELSE IF s[Len(s)] = "_" THEN DigitsValue(SubSeq(s, 1, Len(s) - 1))
    ELSE 10 * DigitsValue(SubSeq(s, 1, Len(s) - 1)) + DigitVal(s[Len(s)])

\* int(str): ok is FALSE where Python raises ValueError
PyInt(str) ==
    LET s == Strip(str)
        signed == s # <<>> /\ Head(s) \in {"-", "+"}
        body == IF signed THEN Tail(s) ELSE s
    IN IF IsDigitPart(body)
       THEN [ok |-> TRUE,
             val |-> IF signed /\ Head(s) = "-" THEN 0 - DigitsValue(body)
                     ELSE DigitsValue(body)]
       ELSE [ok |-> FALSE, val |-> 0]

RECURSIVE NatStr(_)
NatStr(n) ==
    IF n < 10 THEN <<Digits[n + 1]>>
    ELSE NatStr(n \div 10) \o <<Digits[(n % 10) + 1]>>

\* str(int), as an f-string formats {code}
IntStr(n) == IF n < 0 THEN <<"-">> \o NatStr(0 - n) ELSE NatStr(n)

CeilDiv8_mutA(p) == (p \div 8) + 1

\* math.ceil(precision / 8)
CeilDiv8(p) == (p + 7) \div 8

RECURSIVE Product(_)
Product(shape) == IF shape = <<>> THEN 1 ELSE Head(shape) * Product(Tail(shape))

----------------------------------------------------------------------------
(* Values passed to and returned by the operations *)

NoParams == [rows |-> 0, columns |-> 0, nr_components |-> 0, precision |-> 0]

NoResult == [kind |-> "none", dtype |-> "", shape |-> <<>>, data |-> <<>>,
             params |-> NoParams]

NoError == [type |-> "none", text |-> <<>>]

Err(type, text) == [type |-> type, text |-> text]

\* a 1-D numpy array of uint8 over the bytes b
ByteArray1D(b) == [kind |-> "ndarray", dtype |-> "uint8", shape |-> <<Len(b)>>,
                   data |-> b, params |-> NoParams]

ByteArrayObj(b) == [kind |-> "bytearray", dtype |-> "", shape |-> <<Len(b)>>,
                    data |-> b, params |-> NoParams]

ParamsDict(p) == [kind |-> "dict", dtype |-> "", shape |-> <<>>, data |-> <<>>,
                  params |-> p]

\* ndarray.view("<u2") of a 1-D uint8 array: ok is FALSE where numpy raises
ViewU2(arr) ==
    LET n == Len(arr.data)
    IN IF n % 2 # 0
       THEN [ok |-> FALSE, arr |-> arr]
       ELSE [ok |-> TRUE,
             arr |-> [arr EXCEPT !.dtype = "<u2",
                                 !.shape = <<n \div 2>>,
                                 !.data = [k \in 1..(n \div 2) |->
                                     arr.data[2 * k - 1] + 256 * arr.data[2 * k]]]]

\* a reshape that performs no size check
NdReshape_mutA(arr, shape) == [ok |-> TRUE, arr |-> [arr EXCEPT !.shape = shape]]

\* ndarray.reshape(*shape) with positive dimensions: ok is FALSE where numpy
\* raises "cannot reshape array of size N into shape S"
NdReshape(arr, shape) ==
    IF Product(shape) # Len(arr.data)
    THEN [ok |-> FALSE, arr |-> arr]
    ELSE [ok |-> TRUE, arr |-> [arr EXCEPT !.shape = shape]]

RECURSIVE ShapeStr(_)
ShapeStr(shape) ==
    IF shape = <<>> THEN <<>>
    ELSE IntStr(Head(shape)) \o
         (IF Tail(shape) = <<>> THEN <<>> ELSE <<",">>) \o ShapeStr(Tail(shape))

IsPath(stream) == stream.kind \in {"str", "Path"}

IsBuffer(stream) == stream.kind \in {"bytes", "bytearray"}

\* a read that rewinds first and gives the whole content
ReadAll_mutA(stream) == stream.content

\* file-like read(): the bytes from the current position to the end
ReadAll(stream) == SubSeq(stream.content, stream.pos + 1, Len(stream.content))

----------------------------------------------------------------------------
(* The native engine _libjpeg: its answer to a call is an input of the model *)

NativeDecode(buffer, transform, as_array, resp) ==
    [status |-> resp.status,
     out |-> IF as_array THEN ByteArray1D(resp.out) ELSE ByteArrayObj(resp.out),
     params |-> resp.params]

NativeGetParameters(buffer, resp) ==
    [status |-> resp.status, params |-> resp.params]

NativeCall(fn, buffer, transform, as_array) ==
    [fn |-> fn, buffer |-> buffer, transform |-> transform, as_array |-> as_array]

----------------------------------------------------------------------------
(* Outcome of one call of a public operation *)

Raised(type, text, events, native, stream) ==
    [error |-> Err(type, text), result |-> NoResult,
     events |-> events \o <<"raise">>, native |-> native,
     warnings |-> <<>>, stream |-> stream]

Returned(result, events, native, stream) ==
    [error |-> NoError, result |-> result,
     events |-> events \o <<"return">>, native |-> native,
     warnings |-> <<>>, stream |-> stream]

\* status.decode("utf-8"); code, msg = status.split("::::"); code = int(code)
ParseStatus(status) ==
    LET dec == Utf8Decode(status)
        parts == StrSplit(dec.str)
        num == PyInt(parts[1])
    IN IF ~dec.ok
       THEN [ok |-> FALSE, type |-> "UnicodeDecodeError",
             text |-> <<"'utf-8' codec can't decode byte 0xff">>,
             code |-> 0, msg |-> <<>>]
       ELSE IF Len(parts) < 2
       THEN [ok |-> FALSE, type |-> "ValueError",
             text |-> <<"not enough values to unpack (expected 2, got 1)">>,
             code |-> 0, msg |-> <<>>]
       ELSE IF Len(parts) > 2
       THEN [ok |-> FALSE, type |-> "ValueError",
             text |-> <<"too many values to unpack (expected 2)">>,
             code |-> 0, msg |-> <<>>]
       ELSE IF ~num.ok
       THEN [ok |-> FALSE, type |-> "ValueError",
             text |-> <<"invalid literal for int() with base 10: '">>
                      \o parts[1] \o <<"'">>,
             code |-> 0, msg |-> <<>>]
       ELSE [ok |-> TRUE, type |-> "none", text |-> <<>>,
             code |-> num.val, msg |-> parts[2]]

IsKnownCode(code) == code \in DOMAIN LIBJPEG_ERROR_CODES

\* the text with the description ahead of the code
KnownErrorText_mutA(fn, code, msg) ==
    <<"libjpeg error code '", LIBJPEG_ERROR_CODES[code], "' returned from ",
      fn, "(): ">> \o IntStr(code) \o <<" - ">> \o msg

\* f"libjpeg error code '{code}' returned from Decode(): {TABLE[code]} - {msg}"
KnownErrorText(fn, code, msg) ==
    <<"libjpeg error code '">> \o IntStr(code) \o
    <<"' returned from ", fn, "(): ", LIBJPEG_ERROR_CODES[code], " - ">> \o msg

\* f"Unknown error code '{code}' returned from Decode(): {msg}"
UnknownErrorText(fn, code, msg) ==
    <<"Unknown error code '">> \o IntStr(code) \o
    <<"' returned from ", fn, "(): ">> \o msg

\* the two raise statements that end each operation
StatusErrorText(fn, code, msg) ==
    IF IsKnownCode(code) THEN KnownErrorText(fn, code, msg)
    ELSE UnknownErrorText(fn, code, msg)

----------------------------------------------------------------------------
(* decode(stream, colour_transform, reshape), utils.py lines 110-152 *)

InvalidTypeText(stream) ==
    <<"Invalid type '", stream.tname,
      "' - must be the path to a JPEG file, a buffer containing the JPEG data or an open JPEG file-like">>

\* lines 110-125: the bytes handed to the engine, or the error raised
DecodeBuffer(stream) ==
    IF IsPath(stream)
    THEN IF stream.exists
         THEN [ok |-> TRUE, type |-> "none", text |-> <<>>,
               buffer |-> stream.content, events |-> <<"open", "read", "close">>,
               stream |-> stream]
         ELSE [ok |-> FALSE, type |-> "FileNotFoundError",
               text |-> <<"No such file or directory">>,
               buffer |-> <<>>, events |-> <<"open">>, stream |-> stream]
    ELSE IF IsBuffer(stream)
    THEN [ok |-> TRUE, type |-> "none", text |-> <<>>,
          buffer |-> stream.content, events |-> <<>>, stream |-> stream]
    ELSE IF ~(stream.has_read /\ stream.has_tell /\ stream.has_seek)
    THEN [ok |-> FALSE, type |-> "TypeError", text |-> InvalidTypeText(stream),
          buffer |-> <<>>, events |-> <<>>, stream |-> stream]
    ELSE [ok |-> TRUE, type |-> "none", text |-> <<>>,
          buffer |-> ReadAll(stream), events |-> <<"read">>,
          stream |-> [stream EXCEPT !.pos = Len(stream.content)]]

\* a shape that always carries the component axis
DecodeShape_mutA(params) == <<params.rows, params.columns, params.nr_components>>

\* lines 137-139
DecodeShape(params) ==
    IF params.nr_components > 1
    THEN <<params.rows, params.columns, params.nr_components>>
    ELSE <<params.rows, params.columns>>

\* lines 132-141: view at the element width, then reshape
ReshapeOut(out, params) ==
    LET bpp == CeilDiv8(params.precision)
        viewed == IF bpp = 2 THEN ViewU2(out) ELSE [ok |-> TRUE, arr |-> out]
        shape == DecodeShape(params)
        shaped == NdReshape(viewed.arr, shape)
    IN IF ~viewed.ok
       THEN [ok |-> FALSE, arr |-> out,
             text |-> <<"When changing to a larger dtype, its size must be a divisor of the total size in bytes of the last axis of the array.">>]
       ELSE IF ~shaped.ok
       THEN [ok |-> FALSE, arr |-> out,
             text |-> <<"cannot reshape array of size ">>
                      \o IntStr(Len(viewed.arr.data))
                      \o <<" into shape (">> \o ShapeStr(shape) \o <<")">>]
       ELSE [ok |-> TRUE, arr |-> shaped.arr, text |-> <<>>]

\* a decode that views the buffer at the element width without reshaping it
DecodeAfterStatus_mutB(code, msg, nat, reshape, events, native, stream) ==
    IF code = 0 /\ ~reshape /\ CeilDiv8(nat.params.precision) = 2
       /\ ViewU2(nat.out).ok
    THEN Returned(ViewU2(nat.out).arr, events, native, stream)
    ELSE IF code = 0
    THEN Returned(nat.out, events, native, stream)
    ELSE Raised("RuntimeError", StatusErrorText("Decode", code, msg),
                events, native, stream)

\* a decode that hands back the buffer whatever the status code
DecodeAfterStatus_mutA(code, msg, nat, reshape, events, native, stream) ==
    Returned(nat.out, events, native, stream)

\* lines 132-152: what decode does with a parsed status
DecodeAfterStatus(code, msg, nat, reshape, events, native, stream) ==
    IF code = 0 /\ reshape
    THEN LET r == ReshapeOut(nat.out, nat.params)
         IN IF r.ok THEN Returned(r.arr, events, native, stream)
            ELSE Raised("ValueError", r.text, events, native, stream)
    ELSE IF code = 0 /\ ~reshape
    THEN Returned(nat.out, events, native, stream)
    ELSE Raised("RuntimeError", StatusErrorText("Decode", code, msg),
                events, native, stream)

\* a decode that calls the engine before it looks at the kind of its input
decode_mutA(stream, colour_transform, reshape, resp) ==
    LET norm == DecodeBuffer(stream)
        nat == NativeDecode(norm.buffer, colour_transform, TRUE, resp)
        native == <<NativeCall("decode", norm.buffer, colour_transform, TRUE)>>
        events == norm.events \o <<"native">>
        st == ParseStatus(nat.status)
    IN IF ~norm.ok
       THEN Raised(norm.type, norm.text, events, native, norm.stream)
       ELSE IF ~st.ok
       THEN Raised(st.type, st.text, events, native, norm.stream)
       ELSE DecodeAfterStatus(st.code, st.msg, nat, reshape, events, native,
                              norm.stream)

decode(stream, colour_transform, reshape, resp) ==
    LET norm == DecodeBuffer(stream)
        nat == NativeDecode(norm.buffer, colour_transform, TRUE, resp)
        native == <<NativeCall("decode", norm.buffer, colour_transform, TRUE)>>
        events == norm.events \o <<"native">>
        st == ParseStatus(nat.status)
    IN IF ~norm.ok
       THEN Raised(norm.type, norm.text, norm.events, <<>>, norm.stream)
       ELSE IF ~st.ok
       THEN Raised(st.type, st.text, events, native, norm.stream)
       ELSE DecodeAfterStatus(st.code, st.msg, nat, reshape, events, native,
                              norm.stream)

----------------------------------------------------------------------------
(* decode_pixel_data(src, ds, version, **kwargs), utils.py lines 190-227 *)

\* the value Python calls None
None == "<None>"

\* the truth value of a label: None and the empty string are false
Truthy(pi) == pi # None /\ pi # ""

\* a selection that takes every label, the empty ones too, as present
PhotometricMissing_mutA(pi) == FALSE

\* line 195: if not pi
PhotometricMissing(pi) == ~Truthy(pi)

\* a mapping is false when it is None or has no entries
DsTruthy(ds) == ~ds.is_none /\ (ds.has_pi \/ ds.has_other)

\* a selection that lets the keyword argument win over the mapping
SelectedLabel_mutA(ds, kwargs) ==
    IF kwargs.has_pi THEN kwargs.pi
    ELSE IF DsTruthy(ds) /\ ds.has_pi THEN ds.pi ELSE None

\* lines 190-194: ds = {} if not ds else ds; ds.get("PhotometricInterpretation", kw)
SelectedLabel(ds, kwargs) ==
    LET photometric_interpretation ==
            IF kwargs.has_pi THEN kwargs.pi ELSE None
    IN IF DsTruthy(ds) /\ ds.has_pi THEN ds.pi ELSE photometric_interpretation

UnsupportedText(pi) ==
    <<"Unsupported (0028,0004) Photometric Interpretation '", pi,
      "', no colour transformation will be applied">>

MissingText ==
    <<"The (0028,0004) Photometric Interpretation element is missing from the dataset">>

\* a version 2 that views the bytes at the element width of the precision
DecodePixelDataV2_mutA(src, resp) ==
    LET nat == NativeDecode(src.content, 0, FALSE, resp)
        native == <<NativeCall("decode", src.content, 0, FALSE)>>
        st == ParseStatus(nat.status)
        viewed == ViewU2(nat.out)
    IN IF ~st.ok
       THEN Raised(st.type, st.text, <<"native">>, native, src)
       ELSE IF st.code = 0
       THEN Returned(IF CeilDiv8(nat.params.precision) = 2 /\ viewed.ok
                     THEN viewed.arr ELSE nat.out,
                     <<"native">>, native, src)
       ELSE Raised("RuntimeError", StatusErrorText("Decode", st.code, st.msg),
                   <<"native">>, native, src)

\* lines 213-227: version 2 calls the engine on src itself
DecodePixelDataV2(src, resp) ==
    LET nat == NativeDecode(src.content, 0, FALSE, resp)
        native == <<NativeCall("decode", src.content, 0, FALSE)>>
        events == <<"native">>
        st == ParseStatus(nat.status)
    IN IF ~st.ok
       THEN Raised(st.type, st.text, events, native, src)
       ELSE IF st.code = 0
       THEN Returned(nat.out, events, native, src)
       ELSE Raised("RuntimeError", StatusErrorText("Decode", st.code, st.msg),
                   events, native, src)

decode_pixel_data(src, ds, version, kwargs, resp) ==
    LET pi == SelectedLabel(ds, kwargs)
        known == pi \in DOMAIN COLOURSPACE
        transform == IF known THEN COLOURSPACE[pi] ELSE 0
        inner == decode(src, transform, FALSE, resp)
    IN IF version = Version.v1
       THEN IF PhotometricMissing(pi)
            THEN Raised("ValueError", MissingText, <<>>, <<>>, src)
            ELSE IF known THEN inner
            ELSE [inner EXCEPT !.events = <<"warn">> \o @,
                               !.warnings = <<UnsupportedText(pi)>>]
       ELSE DecodePixelDataV2(src, resp)

----------------------------------------------------------------------------
(* get_parameters(stream), utils.py lines 257-282 *)

\* lines 257-264: no capability check, stream.read() is called directly
GetParametersBuffer(stream) ==
    IF IsPath(stream)
    THEN IF stream.exists
         THEN [ok |-> TRUE, type |-> "none", text |-> <<>>,
               buffer |-> stream.content, events |-> <<"open", "read", "close">>,
               stream |-> stream]
         ELSE [ok |-> FALSE, type |-> "FileNotFoundError",
               text |-> <<"No such file or directory">>,
               buffer |-> <<>>, events |-> <<"open">>, stream |-> stream]
    ELSE IF IsBuffer(stream)
    THEN [ok |-> TRUE, type |-> "none", text |-> <<>>,
          buffer |-> stream.content, events |-> <<>>, stream |-> stream]
    ELSE IF ~stream.has_read
    THEN [ok |-> FALSE, type |-> "AttributeError",
          text |-> <<"'", stream.tname, "' object has no attribute 'read'">>,
          buffer |-> <<>>, events |-> <<>>, stream |-> stream]
    ELSE [ok |-> TRUE, type |-> "none", text |-> <<>>,
          buffer |-> ReadAll(stream), events |-> <<"read">>,
          stream |-> [stream EXCEPT !.pos = Len(stream.content)]]

get_parameters(stream, resp) ==
    LET norm == GetParametersBuffer(stream)
        nat == NativeGetParameters(norm.buffer, resp)
        native == <<NativeCall("get_parameters", norm.buffer, 0, FALSE)>>
        events == norm.events \o <<"native">>
        st == ParseStatus(nat.status)
    IN IF ~norm.ok
       THEN Raised(norm.type, norm.text, norm.events, <<>>, norm.stream)
       ELSE IF ~st.ok
       THEN Raised(st.type, st.text, events, native, norm.stream)
       ELSE IF st.code = 0
       THEN Returned(ParamsDict(nat.params), events, native, norm.stream)
       ELSE Raised("RuntimeError",
                   StatusErrorText("GetJPEGParameters", st.code, st.msg),
                   events, native, norm.stream)

----------------------------------------------------------------------------
(* Inputs of the calls *)

Source(kind, tname, exists, content, has_read, has_tell, has_seek, pos) ==
    [kind |-> kind, tname |-> tname, exists |-> exists, content |-> content,
     has_read |-> has_read, has_tell |-> has_tell, has_seek |-> has_seek,
     pos |-> pos]

\* an empty input and one that starts with the JPEG SOI marker
Contents == {<<>>, <<255, 216>>}

PathSources ==
    {Source("str", "str", TRUE, c, FALSE, FALSE, FALSE, 0) : c \in Contents}
    \cup {Source("Path", "PosixPath", FALSE, <<>>, FALSE, FALSE, FALSE, 0)}

BufferSources ==
    {Source("bytes", "bytes", FALSE, c, FALSE, FALSE, FALSE, 0) : c \in Contents}
    \cup {Source("bytearray", "bytearray", FALSE, <<255, 216>>, FALSE, FALSE, FALSE, 0)}

\* open files and other objects, with and without the three methods
ObjectSources ==
    {Source("object", "BytesIO", FALSE, <<255, 216>>, TRUE, TRUE, TRUE, p) : p \in 0..1}
    \cup {Source("object", "Reader", FALSE, <<255, 216>>, r, t, k, 0) :
             r \in BOOLEAN, t \in BOOLEAN, k \in BOOLEAN}

Sources == PathSources \cup BufferSources \cup ObjectSources

NoSource == Source("none", "NoneType", FALSE, <<>>, FALSE, FALSE, FALSE, 0)

Labels == {"MONOCHROME1", "MONOCHROME2", "RGB", "YBR_FULL", "YBR_FULL_422",
           "YBR_ICT", ""}

Ds(is_none, has_pi, pi, has_other) ==
    [is_none |-> is_none, has_pi |-> has_pi, pi |-> pi, has_other |-> has_other]

\* None, {}, a mapping without the element, mappings with it
Datasets ==
    {Ds(TRUE, FALSE, None, FALSE), Ds(FALSE, FALSE, None, FALSE),
     Ds(FALSE, FALSE, None, TRUE)}
    \cup {Ds(FALSE, TRUE, l, o) : l \in Labels, o \in BOOLEAN}

NoDs == Ds(TRUE, FALSE, None, FALSE)

Kw(has_pi, pi) == [has_pi |-> has_pi, pi |-> pi]

NoKw == Kw(FALSE, None)

Kwargs == {NoKw, Kw(TRUE, None), Kw(TRUE, ""), Kw(TRUE, "RGB"),
           Kw(TRUE, "MONOCHROME2"), Kw(TRUE, "PALETTE COLOR")}

Call(op, stream, colour_transform, reshape, ds, version, kwargs) ==
    [op |-> op, stream |-> stream, colour_transform |-> colour_transform,
     reshape |-> reshape, ds |-> ds, version |-> version, kwargs |-> kwargs]

----------------------------------------------------------------------------
(* Answers of the native engine *)

Precisions == 1..16

ParamSets ==
    [rows : 1..MaxRows, columns : 1..MaxColumns,
     nr_components : 1..MaxComponents, precision : Precisions]

\* the n bytes of an output buffer
OutBytes(n) == [i \in 1..n |-> (i * 37 + 200) % 256]

OutBuffers == {OutBytes(n) : n \in 0..MaxOutLen}

Response(status, out, params) == [status |-> status, out |-> out, params |-> params]

TokOk == <<"0", ":", ":", ":", ":">>

TokOkText == <<"0", ":", ":", ":", ":", "o", "k">>

\* status tokens of failed calls, and tokens that do not follow the format
FailTokens ==
    { <<"-", "1", "0", "3", "6", ":", ":", ":", ":", "b", "a", "d">>,
      <<"-", "1", "0", "2", "4", ":", ":", ":", ":">>,
      <<"-", "2", "0", "4", "6", ":", ":", ":", ":", "a", ":", "b">>,
      <<"-", "1", "0", "3", "9", ":", ":", ":", ":", "x">>,
      <<"7", ":", ":", ":", ":", "-", "1", "0", "3", "6">>,
      <<"-", "0", "1", "0", "3", "6", ":", ":", ":", ":", " ", "x">>,
      <<" ", "-", "1", "_", "0", "2", "5", " ", ":", ":", ":", ":", ":", "x">>,
      <<"-", "1", "0", "3", "6", ":", ":", ":", ":", "a", ":", ":", ":", ":", "b">>,
      <<"1", ":", ":", ":", ":", ":", ":", ":", ":">>,
      <<"0", ":", ":", ":", ":", ":", ":", ":", ":">>,
      <<"o", "o", "p", "s">>,
      <<"x", ":", ":", ":", ":", "m">>,
      <<"-", "1", "0", "3", "6", ":", ":", ":", ":", BadByte>> }

Alphabet == {"-", "0", "1", ":", "x"}

RECURSIVE SeqsUpTo(_, _)
SeqsUpTo(S, n) ==
    IF n = 0 THEN {<<>>}
    ELSE LET shorter == SeqsUpTo(S, n - 1)
         IN shorter \cup {Append(q, c) : q \in shorter, c \in S}

\* every token over the alphabet up to the bounded length
ShortTokens == SeqsUpTo(Alphabet, MaxTokenLen)

FailResponses == {Response(t, <<>>, NoParams) : t \in FailTokens}

DecodeResponses ==
    {Response(TokOk, o, p) : o \in OutBuffers, p \in ParamSets}
    \cup FailResponses

PixelDataResponses ==
    {Response(t, o, p) : t \in {TokOk, TokOkText}, o \in OutBuffers,
        p \in {q \in ParamSets : q.precision \in {8, 16} /\ q.rows = 1 /\ q.columns = 1}}
    \cup FailResponses

ParameterResponses ==
    {Response(TokOk, <<>>, p) : p \in ParamSets}
    \cup FailResponses

ShortTokenResponses ==
    {Response(t, <<>>, [rows |-> 1, columns |-> 1, nr_components |-> 1,
                        precision |-> 8]) : t \in ShortTokens}

----------------------------------------------------------------------------
(* The state machine: one pending call, executed once *)

Idle == [error |-> NoError, result |-> NoResult, events |-> <<>>,
         native |-> <<>>, warnings |-> <<>>, stream |-> NoSource]

DecodeCalls ==
    {Call("decode", s, t, r, NoDs, 0, NoKw) :
        s \in Sources, t \in 0..3, r \in BOOLEAN}

PixelDataCalls ==
    {Call("decode_pixel_data", s, 0, FALSE, d, v, k) :
        s \in {x \in BufferSources : x.kind = "bytes"},
        d \in Datasets, v \in {Version.v1, Version.v2}, k \in Kwargs}

GetParametersCalls ==
    {Call("get_parameters", s, 0, FALSE, NoDs, 0, NoKw) : s \in Sources}

\* version 1 hands src to decode(): sources that decode() turns down
RejectedPixelDataCalls ==
    {Call("decode_pixel_data", s, 0, FALSE, d, Version.v1, NoKw) :
        s \in {x \in Sources : (x.kind = "Path" /\ ~x.exists)
                                 \/ (x.kind = "object" /\ ~x.has_read)},
        d \in {NoDs, Ds(FALSE, TRUE, "RGB", FALSE), Ds(FALSE, TRUE, "YBR_ICT", FALSE)}}

Init ==
    /\ pc = "start"
    /\ outcome = Idle
    /\ \/ call \in DecodeCalls /\ engine \in DecodeResponses
       \/ call \in PixelDataCalls /\ engine \in PixelDataResponses
       \/ call \in RejectedPixelDataCalls /\ engine \in FailResponses
       \/ call \in GetParametersCalls /\ engine \in ParameterResponses
       \/ /\ call \in {c \in GetParametersCalls : c.stream.kind = "bytes"}
          /\ engine \in ShortTokenResponses

Decode ==
    /\ pc = "start"
    /\ call.op = "decode"
    /\ outcome' = decode(call.stream, call.colour_transform, call.reshape, engine)
    /\ pc' = "done"
    /\ UNCHANGED <<call, engine>>

DecodePixelData ==
    /\ pc = "start"
    /\ call.op = "decode_pixel_data"
    /\ outcome' = decode_pixel_data(call.stream, call.ds, call.version,
                                    call.kwargs, engine)
    /\ pc' = "done"
    /\ UNCHANGED <<call, engine>>

GetParameters ==
    /\ pc = "start"
    /\ call.op = "get_parameters"
    /\ outcome' = get_parameters(call.stream, engine)
    /\ pc' = "done"
    /\ UNCHANGED <<call, engine>>

Next == Decode \/ DecodePixelData \/ GetParameters

Spec == Init /\ [][Next]_vars

----------------------------------------------------------------------------
(* Vocabulary of the properties *)

Done == pc = "done"

Returns == outcome.error = NoError /\ outcome.result # NoResult

Raises == outcome.error # NoError /\ outcome.result = NoResult

\* the call reached the engine and its status token was parsed to a code
StatusParsed == outcome.native # <<>> /\ ParseStatus(engine.status).ok

StatusCode == ParseStatus(engine.status).code

StatusMsg == ParseStatus(engine.status).msg

\* sub occurs in text at position i
OccursAt(text, sub, i) ==
    /\ i >= 1
    /\ i + Len(sub) - 1 <= Len(text)
    /\ SubSeq(text, i, i + Len(sub) - 1) = sub

Occurs(text, sub) == \E i \in 1..(Len(text) + 1) : OccursAt(text, sub, i)

EndsWith(text, sub) == OccursAt(text, sub, Len(text) - Len(sub) + 1)

\* the keys of the error table, written out
TableCodes == (((0 - 1042)..(0 - 1024)) \ {0 - 1039}) \cup {0 - 2046}

Descriptions == {LIBJPEG_ERROR_CODES[c] : c \in DOMAIN LIBJPEG_ERROR_CODES}

\* bytes per element that the precision calls for
WidthOf(precision) == IF precision <= 8 THEN 1 ELSE 2

DeclaredCount == engine.params.rows * engine.params.columns
                 * engine.params.nr_components

\* the engine's buffer holds exactly the declared number of elements
EngineConsistent ==
    Len(engine.out) = DeclaredCount * WidthOf(engine.params.precision)

\* decode was asked to reshape and the buffer cannot take the declared shape
ShapingFails == call.op = "decode" /\ call.reshape /\ ~EngineConsistent

----------------------------------------------------------------------------
(* Properties *)

\* C1, as stated: an operation returns a result if and only if the parsed
\* status code is 0; for a nonzero code it raises an error carrying the code
\* and the message, returns nothing and has called the engine once.
C1_AsStated ==
    (Done /\ StatusParsed) =>
        /\ Returns <=> StatusCode = 0
        /\ StatusCode # 0 =>
              /\ Raises
              /\ Occurs(outcome.error.text, IntStr(StatusCode))
              /\ EndsWith(outcome.error.text, StatusMsg)
              /\ Len(outcome.native) = 1

\* C1, amended: an operation returns a result if and only if the parsed status
\* code is 0 and, for decode with reshape, the engine's buffer takes the
\* declared shape; with code 0 and a buffer that does not, decode raises
\* ValueError; for a nonzero code the operation raises a RuntimeError carrying
\* the code and the message, returns nothing and has called the engine once.
C1_StatusDecidesOutcome ==
    (Done /\ StatusParsed) =>
        /\ Returns <=> (StatusCode = 0 /\ ~ShapingFails)
        /\ (StatusCode = 0 /\ ShapingFails) =>
              Raises /\ outcome.error.type = "ValueError"
        /\ StatusCode # 0 =>
              /\ Raises
              /\ outcome.error.type = "RuntimeError"
              /\ Occurs(outcome.error.text, IntStr(StatusCode))
              /\ EndsWith(outcome.error.text, StatusMsg)
        /\ Len(outcome.native) = 1

C1_Witness ==
    /\ Done /\ StatusParsed /\ StatusCode = 0 - 1036
    /\ call.op = "decode_pixel_data" /\ call.version = Version.v1
    /\ Raises /\ outcome.error.type = "RuntimeError"
    /\ Len(outcome.native) = 1

\* C2: a nonzero code that is a key of the error table raises the known-code
\* error built from its table entry, any other nonzero code raises the
\* unknown-code error; both carry the code and the message, and -1036 is
\* reported as the invalid-stream entry.
C2_KnownAndUnknownCodes ==
    (Done /\ StatusParsed /\ StatusCode # 0) =>
        /\ StatusCode \in TableCodes =>
              /\ Head(outcome.error.text) = "libjpeg error code '"
              /\ \E i \in 1..Len(outcome.error.text) :
                    outcome.error.text[i] = LIBJPEG_ERROR_CODES[StatusCode]
        /\ StatusCode \notin TableCodes =>
              /\ Head(outcome.error.text) = "Unknown error code '"
              /\ \A i \in 1..Len(outcome.error.text) :
                    outcome.error.text[i] \notin Descriptions
        /\ OccursAt(outcome.error.text, IntStr(StatusCode), 2)
        /\ EndsWith(outcome.error.text, StatusMsg)
        /\ StatusCode = 0 - 1036 =>
              \E i \in 1..Len(outcome.error.text) : outcome.error.text[i] =
                  "The stream passed in is no valid jpeg stream"

C2_Witness ==
    /\ Done /\ StatusParsed /\ StatusCode = 0 - 1039
    /\ call.op = "decode"
    /\ Head(outcome.error.text) = "Unknown error code '"
    /\ EndsWith(outcome.error.text, <<"x">>)

\* the text holds the code, then the description of the code, then the message
CodeDescriptionMessage(text, code, msg) ==
    /\ code \in DOMAIN LIBJPEG_ERROR_CODES
    /\ \E i, j \in 1..Len(text) :
          /\ OccursAt(text, IntStr(code), i)
          /\ i + Len(IntStr(code)) <= j
          /\ text[j] = LIBJPEG_ERROR_CODES[code]
          /\ j < Len(text) - Len(msg) + 1
          /\ EndsWith(text, msg)

\* C3, as stated: every failure caused by a nonzero status yields an error
\* whose text holds the code, the category description and the message, in
\* this order.
C3_AsStated ==
    (Done /\ StatusParsed /\ StatusCode # 0) =>
        CodeDescriptionMessage(outcome.error.text, StatusCode, StatusMsg)

\* C3, amended: for a nonzero code of the error table the text holds the code,
\* the description and the message in this order; for any other nonzero code
\* the text holds the code and then the message, and no description.
C3_TextOrder ==
    (Done /\ StatusParsed /\ StatusCode # 0) =>
        /\ Raises
        /\ StatusCode \in TableCodes =>
              CodeDescriptionMessage(outcome.error.text, StatusCode, StatusMsg)
        /\ StatusCode \notin TableCodes =>
              /\ \E i \in 1..Len(outcome.error.text) :
                    /\ OccursAt(outcome.error.text, IntStr(StatusCode), i)
                    /\ i + Len(IntStr(StatusCode))
                          <= Len(outcome.error.text) - Len(StatusMsg) + 1
              /\ EndsWith(outcome.error.text, StatusMsg)
              /\ \A i \in 1..Len(outcome.error.text) :
                    outcome.error.text[i] \notin Descriptions

C3_Witness ==
    /\ Done /\ StatusParsed /\ StatusCode = 0 - 2046
    /\ call.op = "get_parameters"
    /\ StatusMsg = <<"a", ":", "b">>
    /\ CodeDescriptionMessage(outcome.error.text, StatusCode, StatusMsg)

\* the parts of a status token on either side of its first delimiter
TokenLeft(tok) == SubSeq(tok, 1, FirstDelim(tok) - 1)

TokenRight(tok) == SubSeq(tok, FirstDelim(tok) + 4, Len(tok))

Unsigned(s) == IF s # <<>> /\ Head(s) \in {"-", "+"} THEN Tail(s) ELSE s

\* an optional sign and at least one decimal digit
IsSignedDecimal(s) ==
    Unsigned(s) # <<>> /\ \A i \in 1..Len(Unsigned(s)) : IsDigit(Unsigned(s)[i])

RECURSIVE LeftValue(_, _)
LeftValue(s, acc) ==
    IF s = <<>> THEN acc ELSE LeftValue(Tail(s), 10 * acc + DigitVal(Head(s)))

DecimalValue(s) ==
    IF s # <<>> /\ Head(s) = "-" THEN 0 - LeftValue(Unsigned(s), 0)
    ELSE LeftValue(Unsigned(s), 0)

\* the token is ASCII and holds the delimiter
Delimited(tok) == (\A i \in 1..Len(tok) : tok[i] # BadByte) /\ HasDelim(tok)

\* the left part is nothing int() accepts
LeftUnparseable(tok) ==
    /\ ~IsSignedDecimal(TokenLeft(tok))
    /\ \A i \in 1..Len(TokenLeft(tok)) : TokenLeft(tok)[i] \notin {" ", "_"}

\* the call went on with this code and this message
WentOnWith(code, msg) ==
    /\ ParseStatus(engine.status).ok
    /\ ParseStatus(engine.status).code = code
    /\ ParseStatus(engine.status).msg = msg
    /\ code = 0 => outcome.error.type # "RuntimeError" /\ (Returns \/ ShapingFails)
    /\ code # 0 =>
          /\ outcome.error.type = "RuntimeError"
          /\ OccursAt(outcome.error.text, IntStr(code), 2)
          /\ EndsWith(outcome.error.text, msg)
          /\ outcome.error.text[Len(outcome.error.text) - Len(msg)]
                \in {"(): ", " - "}

\* the call ended on a ValueError of the parser, with no code
MalformedStatus ==
    /\ Raises
    /\ outcome.error.type = "ValueError"
    /\ ~ParseStatus(engine.status).ok
    /\ Head(outcome.error.text) \in
          {"too many values to unpack (expected 2)",
           "invalid literal for int() with base 10: '"}

\* C4, as stated: a token <signed decimal>::::<message> is split at the first
\* delimiter, the code is the integer on its left and the message everything
\* on its right, further delimiters included; a left part that is no integer
\* fails as a malformed status.
C4_AsStated ==
    (Done /\ outcome.native # <<>> /\ Delimited(engine.status)) =>
        /\ IsSignedDecimal(TokenLeft(engine.status)) =>
              WentOnWith(DecimalValue(TokenLeft(engine.status)),
                         TokenRight(engine.status))
        /\ LeftUnparseable(engine.status) => MalformedStatus

\* C4, amended: a token <signed decimal>::::<message> whose message holds no
\* further delimiter gives the integer on the left as the code and everything
\* on the right, further colons included, as the message; a token whose
\* message holds a further delimiter fails with ValueError and yields no code;
\* a left part that is no integer fails with ValueError.
C4_SplitStatus ==
    (Done /\ outcome.native # <<>> /\ Delimited(engine.status)) =>
        /\ (IsSignedDecimal(TokenLeft(engine.status))
            /\ ~HasDelim(TokenRight(engine.status))) =>
              WentOnWith(DecimalValue(TokenLeft(engine.status)),
                         TokenRight(engine.status))
        /\ HasDelim(TokenRight(engine.status)) => MalformedStatus
        /\ LeftUnparseable(engine.status) => MalformedStatus

C4_Witness ==
    /\ Done /\ call.op = "get_parameters"
    /\ engine.status = <<"1", ":", ":", ":", ":", ":">>
    /\ WentOnWith(1, <<":">>)

\* C5: a decode with code 0 and reshape that returns an array returns it with
\* shape [rows, columns] for one component and [rows, columns, nr_components]
\* for more, from the parameters the engine gave.
C5_ReshapedShape ==
    (Done /\ call.op = "decode" /\ call.reshape /\ Returns) =>
        /\ StatusCode = 0
        /\ outcome.result.kind = "ndarray"
        /\ engine.params.nr_components = 1 =>
              outcome.result.shape = <<engine.params.rows, engine.params.columns>>
        /\ engine.params.nr_components > 1 =>
              outcome.result.shape = <<engine.params.rows, engine.params.columns,
                                       engine.params.nr_components>>

C5_Witness ==
    /\ Done /\ call.op = "decode" /\ call.reshape /\ Returns
    /\ engine.params.nr_components = 2
    /\ outcome.result.shape = <<2, 1, 2>>

\* C5, second case seen: one component gives two axes
C5_WitnessOneComponent ==
    /\ Done /\ call.op = "decode" /\ call.reshape /\ Returns
    /\ engine.params.nr_components = 1
    /\ outcome.result.shape = <<2, 2>>

\* C6, as stated: a decode with code 0 and no reshape returns a 1-D sequence
\* at the element width of the precision, rows * columns * nr_components
\* elements long (checked where the engine's buffer matches its parameters).
C6_AsStated ==
    (Done /\ call.op = "decode" /\ ~call.reshape /\ StatusParsed
     /\ StatusCode = 0 /\ EngineConsistent) =>
        /\ Returns
        /\ Len(outcome.result.shape) = 1
        /\ outcome.result.dtype =
              (IF WidthOf(engine.params.precision) = 2 THEN "<u2" ELSE "uint8")
        /\ Len(outcome.result.data) = DeclaredCount

\* C6, amended: a decode with code 0 and no reshape returns the engine's
\* buffer unchanged, a 1-D sequence of one-byte elements as long as the buffer;
\* where the buffer matches the parameters that is rows * columns *
\* nr_components * width elements, twice the declared count for precision 9..16.
C6_FlatBytes ==
    (Done /\ call.op = "decode" /\ ~call.reshape /\ StatusParsed
     /\ StatusCode = 0) =>
        /\ Returns
        /\ outcome.result.kind = "ndarray"
        /\ outcome.result.dtype = "uint8"
        /\ outcome.result.shape = <<Len(engine.out)>>
        /\ outcome.result.data = engine.out
        /\ EngineConsistent =>
              Len(outcome.result.data)
                 = DeclaredCount * WidthOf(engine.params.precision)

C6_Witness ==
    /\ Done /\ call.op = "decode" /\ ~call.reshape /\ Returns
    /\ engine.params.precision = 12 /\ EngineConsistent
    /\ DeclaredCount = 4
    /\ Len(outcome.result.data) = 8

\* C7: the element width of a reshaped result is one byte for every precision
\* 1..8 and two bytes, little-endian unsigned, for every precision 9..16.
C7_ElementWidth ==
    (Done /\ call.op = "decode" /\ call.reshape /\ Returns) =>
        /\ engine.params.precision \in 1..8 =>
              /\ outcome.result.dtype = "uint8"
              /\ outcome.result.data = engine.out
        /\ engine.params.precision \in 9..16 =>
              /\ outcome.result.dtype = "<u2"
              /\ Len(outcome.result.data) * 2 = Len(engine.out)
              /\ \A k \in 1..Len(outcome.result.data) :
                    outcome.result.data[k] =
                        engine.out[2 * k - 1] + 256 * engine.out[2 * k]

C7_Witness ==
    /\ Done /\ call.op = "decode" /\ call.reshape /\ Returns
    /\ engine.params.precision = 9
    /\ outcome.result.dtype = "<u2"
    /\ Len(outcome.result.data) = 2

\* C7, the other side of the boundary: precision 8 gives one byte
C7_WitnessEight ==
    /\ Done /\ call.op = "decode" /\ call.reshape /\ Returns
    /\ engine.params.precision = 8
    /\ outcome.result.dtype = "uint8"

\* C8: a decode with code 0 and reshape whose buffer does not hold rows *
\* columns * nr_components elements at the element width raises ValueError,
\* and no returned array has a shape that disagrees with its element count.
C8_ShapeMismatch ==
    (Done /\ call.op = "decode" /\ call.reshape /\ StatusParsed
     /\ StatusCode = 0) =>
        /\ ~EngineConsistent =>
              Raises /\ outcome.error.type = "ValueError"
        /\ Returns => Product(outcome.result.shape) = Len(outcome.result.data)

C8_Witness ==
    /\ Done /\ call.op = "decode" /\ call.reshape /\ StatusParsed
    /\ StatusCode = 0
    /\ engine.params.precision = 8 /\ DeclaredCount = 4 /\ Len(engine.out) = 5
    /\ Raises /\ outcome.error.type = "ValueError"

\* the label decode_pixel_data reads: the element of the mapping, else the
\* keyword argument, else nothing
GivenLabel ==
    IF ~call.ds.is_none /\ call.ds.has_pi THEN call.ds.pi
    ELSE IF call.kwargs.has_pi THEN call.kwargs.pi
    ELSE None

\* C9: decode_pixel_data version 1, given its byte source, passes the engine
\* transform 1 for RGB and 0 for MONOCHROME1, MONOCHROME2, YBR_FULL and
\* YBR_FULL_422; for any other non-empty label it warns, passes 0 and still
\* calls the engine.
C9_TransformOfLabel ==
    (Done /\ call.op = "decode_pixel_data" /\ call.version = Version.v1
     /\ IsBuffer(call.stream) /\ GivenLabel \notin {None, ""}) =>
        /\ Len(outcome.native) = 1
        /\ outcome.native[1].transform = (IF GivenLabel = "RGB" THEN 1 ELSE 0)
        /\ GivenLabel \in {"MONOCHROME1", "MONOCHROME2", "RGB", "YBR_FULL",
                           "YBR_FULL_422"} => outcome.warnings = <<>>
        /\ GivenLabel \notin {"MONOCHROME1", "MONOCHROME2", "RGB", "YBR_FULL",
                              "YBR_FULL_422"} =>
              /\ Len(outcome.warnings) = 1
              /\ outcome.warnings[1][2] = GivenLabel
              /\ Head(outcome.events) = "warn"

C9_Witness ==
    /\ Done /\ call.op = "decode_pixel_data" /\ call.version = Version.v1
    /\ GivenLabel = "YBR_ICT"
    /\ Len(outcome.warnings) = 1
    /\ Len(outcome.native) = 1 /\ outcome.native[1].transform = 0
    /\ Returns

\* C9, the one label with a transform
C9_WitnessRGB ==
    /\ Done /\ call.op = "decode_pixel_data" /\ call.version = Version.v1
    /\ GivenLabel = "RGB"
    /\ Len(outcome.native) = 1 /\ outcome.native[1].transform = 1

\* C10: decode_pixel_data version 1 with no label in the metadata and none in
\* the keyword arguments raises the missing-element ValueError and does not
\* call the engine.
C10_MissingLabel ==
    (Done /\ call.op = "decode_pixel_data" /\ call.version = Version.v1
     /\ (call.ds.is_none \/ ~call.ds.has_pi) /\ ~call.kwargs.has_pi) =>
        /\ Raises
        /\ outcome.error.type = "ValueError"
        /\ outcome.error.text = MissingText
        /\ outcome.native = <<>>
        /\ "native" \notin {outcome.events[i] : i \in 1..Len(outcome.events)}

C10_Witness ==
    /\ Done /\ call.op = "decode_pixel_data" /\ call.version = Version.v1
    /\ ~call.ds.is_none /\ ~call.ds.has_pi /\ call.ds.has_other
    /\ ~call.kwargs.has_pi
    /\ Raises /\ outcome.error.text = MissingText
    /\ outcome.native = <<>>

\* C11: decode_pixel_data version 2 calls the engine with colour transform 0
\* whatever the metadata and the keyword arguments are, and with code 0 it
\* returns the engine's byte sequence as it is, neither viewed at another
\* element width nor reshaped.
C11_VersionTwoRawBytes ==
    (Done /\ call.op = "decode_pixel_data" /\ call.version = Version.v2) =>
        /\ Len(outcome.native) = 1
        /\ outcome.native[1].transform = 0
        /\ ~outcome.native[1].as_array
        /\ outcome.warnings = <<>>
        /\ (StatusParsed /\ StatusCode = 0) =>
              /\ Returns
              /\ outcome.result.kind = "bytearray"
              /\ outcome.result.dtype = ""
              /\ outcome.result.data = engine.out
              /\ outcome.result.shape = <<Len(engine.out)>>

C11_Witness ==
    /\ Done /\ call.op = "decode_pixel_data" /\ call.version = Version.v2
    /\ ~call.ds.is_none /\ call.ds.has_pi /\ call.ds.pi = "RGB"
    /\ call.kwargs.has_pi /\ call.kwargs.pi = "RGB"
    /\ engine.params.precision = 16 /\ Len(engine.out) = 4
    /\ Returns /\ outcome.result.data = engine.out
    /\ outcome.native[1].transform = 0

\* C11, an absent label: version 2 does not ask for one
C11_WitnessNoLabel ==
    /\ Done /\ call.op = "decode_pixel_data" /\ call.version = Version.v2
    /\ call.ds.is_none /\ ~call.kwargs.has_pi
    /\ Returns /\ Len(outcome.native) = 1

\* the source is an object, neither a path nor a byte buffer, that lacks one
\* of read, tell and seek
LacksCapability(stream) ==
    /\ stream.kind = "object"
    /\ ~(stream.has_read /\ stream.has_tell /\ stream.has_seek)

\* C12: in decode and in get_parameters a source that is neither a path nor a
\* byte buffer and lacks one of read, seek and tell fails with the
\* unsupported-input error (TypeError, or AttributeError for the missing
\* method), is never read and never reaches the engine.
C12_UnsupportedInput ==
    (Done /\ call.op \in {"decode", "get_parameters"}
     /\ LacksCapability(call.stream)) =>
        /\ Raises
        /\ outcome.error.type \in {"TypeError", "AttributeError"}
        /\ outcome.native = <<>>
        /\ \A i \in 1..Len(outcome.events) :
              outcome.events[i] \notin {"read", "native"}
        /\ outcome.stream = call.stream

\* the error is one the input handling or the label selection raises
LocalError ==
    \/ outcome.error.type \in {"FileNotFoundError", "TypeError", "AttributeError"}
    \/ outcome.error.type = "ValueError" /\ outcome.error.text = MissingText

\* C13: an error of the input handling (path that does not exist, input of an
\* unsupported kind) or of the label selection (missing photometric label) is
\* raised before any engine call: no engine call comes before such a raise,
\* and a call that ends in such an error has made no engine call.
C13_LocalErrorsBeforeEngine ==
    (Done /\ LocalError) =>
        /\ Raises
        /\ outcome.native = <<>>
        /\ outcome.events[Len(outcome.events)] = "raise"
        /\ \A i \in 1..Len(outcome.events) : outcome.events[i] # "native"

C13_Witness ==
    /\ Done /\ call.op = "decode_pixel_data" /\ call.version = Version.v1
    /\ call.stream.kind = "object" /\ ~call.stream.has_read
    /\ call.ds.pi = "YBR_ICT"
    /\ outcome.error.type = "TypeError"
    /\ outcome.events = <<"warn", "raise">>
    /\ outcome.native = <<>>

\* C13, a path that does not exist, in decode
C13_WitnessNotFound ==
    /\ Done /\ call.op = "decode" /\ call.stream.kind = "Path"
    /\ outcome.error.type = "FileNotFoundError"
    /\ outcome.events = <<"open", "raise">>

\* the bytes a source holds for the engine: the file, the buffer, or what
\* read() gives from the position of the stream to its end
SourceBytes(stream) ==
    IF stream.kind = "object"
    THEN [i \in 1..(Len(stream.content) - stream.pos) |->
             stream.content[stream.pos + i]]
    ELSE stream.content

\* C14: the bytes handed to the engine are exactly the content of the source,
\* the whole file, the buffer itself or everything read to the end of the
\* stream, and the call leaves the caller's bytes as they were.
C14_BufferVerbatim ==
    (Done /\ outcome.native # <<>>) =>
        /\ Len(outcome.native) = 1
        /\ outcome.native[1].buffer = SourceBytes(call.stream)
        /\ outcome.stream.content = call.stream.content
        /\ outcome.stream.kind = call.stream.kind
        /\ call.stream.kind # "object" => outcome.stream = call.stream

C14_Witness ==
    /\ Done /\ call.op = "decode" /\ call.stream.kind = "object"
    /\ call.stream.pos = 1
    /\ outcome.native # <<>> /\ outcome.native[1].buffer = <<216>>
    /\ outcome.stream.content = <<255, 216>>

\* C14, a byte buffer in decode_pixel_data
C14_WitnessPixelData ==
    /\ Done /\ call.op = "decode_pixel_data" /\ call.stream.kind = "bytes"
    /\ outcome.native # <<>> /\ outcome.native[1].buffer = <<255, 216>>
    /\ outcome.stream = call.stream

\* the transform of a label and the warning for one outside the table
UsesLabel(label) ==
    /\ Len(outcome.native) = 1
    /\ outcome.native[1].transform = (IF label = "RGB" THEN 1 ELSE 0)
    /\ \A i \in 1..Len(outcome.warnings) : outcome.warnings[i][2] = label
    /\ label \notin {"MONOCHROME1", "MONOCHROME2", "RGB", "YBR_FULL",
                     "YBR_FULL_422"} => Len(outcome.warnings) = 1

\* C15: decode_pixel_data version 1 selects the transform from the label of the
\* metadata mapping when the mapping has the entry, also when the keyword
\* argument is given; the keyword argument is used only when the mapping has
\* no such entry, is empty or is absent.
C15_MappingBeforeKeyword ==
    (Done /\ call.op = "decode_pixel_data" /\ call.version = Version.v1
     /\ IsBuffer(call.stream)) =>
        /\ (~call.ds.is_none /\ call.ds.has_pi /\ call.ds.pi # "") =>
              UsesLabel(call.ds.pi)
        /\ (~call.ds.is_none /\ call.ds.has_pi /\ call.ds.pi = "") =>
              Raises /\ outcome.error.text = MissingText
        /\ ((call.ds.is_none \/ ~call.ds.has_pi) /\ call.kwargs.has_pi
            /\ call.kwargs.pi \notin {None, ""}) =>
              UsesLabel(call.kwargs.pi)

C15_Witness ==
    /\ Done /\ call.op = "decode_pixel_data" /\ call.version = Version.v1
    /\ ~call.ds.is_none /\ call.ds.has_pi /\ call.ds.pi = "MONOCHROME1"
    /\ call.kwargs.has_pi /\ call.kwargs.pi = "RGB"
    /\ Len(outcome.native) = 1 /\ outcome.native[1].transform = 0

\* C15, the keyword argument when the mapping has other entries only
C15_WitnessKeyword ==
    /\ Done /\ call.op = "decode_pixel_data" /\ call.version = Version.v1
    /\ ~call.ds.is_none /\ ~call.ds.has_pi /\ call.ds.has_other
    /\ call.kwargs.has_pi /\ call.kwargs.pi = "RGB"
    /\ Len(outcome.native) = 1 /\ outcome.native[1].transform = 1

====
